---- MODULE Spec2Model ----
(***************************************************************************)
(* Model of apps/remix-ide/src/blockchain/blockchain.js: the Blockchain    *)
(* object's transaction pipeline (runTx), contract creation               *)
(* (createContract), callMethod and sendTransaction, together with the     *)
(* execution context's provider selection and the submission engine        *)
(* (txRunner.rawRun) they drive.                                           *)
(*                                                                         *)
(* One submission is followed at a time: the variables below hold the      *)
(* state of the submission in progress and are recycled by Finish.         *)
(* JavaScript's undefined is the string Undef; an optional numeric         *)
(* argument is a presence flag plus a number.                              *)
(***************************************************************************)
EXTENDS Naturals, Sequences, FiniteSets

VARIABLES
  provider,    \* executionContext.getProvider(): name of the selected backend
  api,         \* this.transactionContextAPI: which accessors exist, what they return
  kind,        \* entry point of the submission in progress
  pc,          \* where the submission in progress stands
  args,        \* the intent handed to runTx
  tx,          \* the normalized record assembled at line 487
  resolveErr,  \* what the try block of lines 472-481 threw (caught at line 482)
  pendingTxs,  \* keys of this.txRunner.pendingTxs (the current engine object)
  ownRunner,   \* the engine object that took the submission is still this.txRunner
  hooks,       \* per hook: which continuation its invocation called
  trace,       \* what the submission did, in order
  notif,       \* the executed notification's arguments
  cbOut,       \* what runTx handed to its callback cb
  finalOut,    \* what the entry point handed to its caller (finalCb, promise, outputCb)
  raw,         \* what the engine reported to its result callback
  network,     \* what network detection reported to sendTransaction
  startVM,     \* executionContext.isVM() when the submission in progress started
  timestamp,   \* the local timestamp of the submission (line 489)
  providers,   \* this.providers: the provider table, name -> provider
  deploy       \* the deployment or method request in progress and what it logged

vars == <<provider, api, kind, pc, args, tx, resolveErr, pendingTxs, ownRunner,
          hooks, trace, notif, cbOut, finalOut, raw, network, startVM,
          timestamp, providers, deploy>>

Undef == "undefined"

-----------------------------------------------------------------------------
(* Values *)

\* the three pre-registered provider names, and one name registered later
Registered == {"vm", "injected", "web3"}
ProviderNames == Registered \cup {"custom"}

\* fallback gas limit of runTx
DefaultGasLimit == 3000000

\* what the context's accessors return when they exist
ContextGasLimits == {21000}
ContextValues == {3}
ContextAddress == "0xD"

ExplicitFrom == "0xF"
KnownAccount == "0xK"      \* an account of the simulator's account set
UnknownAccount == "0xU"    \* an account the simulator does not know
\* from = 0 (line 483)
UnknownSender == "0"

\* accounts of providers.vm.RemixSimulatorProvider.Accounts.accounts
VMAccounts == {KnownAccount}

ExplicitValues == {0, 7}

\* a timestamp set by the caller in args.data, and what Date.now() returns
IntentTimestamp == "T1"
DateNow == "Now"

\* the intents runTx is given
Intents ==
  { a \in [hasData : BOOLEAN, useCall : BOOLEAN, to : {"0xT"},
           hasValue : BOOLEAN, value : ExplicitValues \cup {0},
           from : {Undef, ExplicitFrom}, timestamp : {Undef, IntentTimestamp}] :
      /\ ~a.hasValue => a.value = 0
      /\ ~a.hasData => a.timestamp = Undef }

NoTx == [to |-> Undef, useCall |-> FALSE, from |-> Undef, value |-> 0, gasLimit |-> 0,
         timestamp |-> Undef]
NoArgs == [hasData |-> FALSE, useCall |-> FALSE, to |-> Undef, hasValue |-> FALSE,
           value |-> 0, from |-> Undef, timestamp |-> Undef]
NoHooks == [confirmationCb |-> "-", continueCb |-> "-", promptCb |-> "-"]
NoNotif == [name |-> Undef, address |-> Undef, timestamp |-> Undef]
NoResult == [hasResult |-> FALSE, createdAddress |-> Undef, contractAddress |-> Undef,
             execResult |-> "absent", status |-> Undef]
\* nothing handed over yet; error <<>> is a null error argument
NoOut == [called |-> 0, error |-> <<>>, result |-> NoResult, address |-> Undef,
          returnValue |-> Undef]

\* the libraries the formatter finds it has to deploy, in the order it deploys them
LibraryPlans == {<<>>, <<"L1", "L2">>}

DeployModes == {"deployContractAndLibraries", "deployContractWithLibrary"}

\* no request in progress
NoDeploy == [mode |-> "none", lookupOnly |-> FALSE, todo |-> <<>>, stage |-> "none",
             log |-> <<>>]

\* the intent the formatter hands to the library-deployment function
LibraryIntent == [hasData |-> TRUE, useCall |-> FALSE, to |-> Undef, hasValue |-> FALSE,
                  value |-> 0, from |-> Undef, timestamp |-> Undef]

NoRaw == [reported |-> FALSE, error |-> Undef, result |-> NoResult]
NoNetwork == [name |-> Undef, id |-> Undef]

\* what the provider's getAccounts hands to its callback
AccountsOutcomes == {"error", "empty", "known", "unknown"}

\* what executionContext.detectNetwork reports
Networks == [name : {"Main", "Custom"}, id : {"1", "5"}]

\* raw results of the engine: the inner result record and its fields
RawResults ==
  { r \in [hasResult : BOOLEAN, createdAddress : {Undef, "0xC"},
           contractAddress : {Undef, "0xR"}, execResult : {"absent", "ok", "failed"},
           status : {Undef, "0x0", "0x1"}] :
      ~r.hasResult => r = NoResult }

-----------------------------------------------------------------------------
(* Execution context and provider table *)

getProvider == provider

isVM == provider = "vm"

\* this.providers after setupProviders
setupProviders == [n \in Registered |-> n]

getCurrentProvider ==
  IF getProvider \in DOMAIN providers THEN providers[getProvider] ELSE providers["web3"]

pendingTransactionsCount == Cardinality(pendingTxs)

Init ==
  /\ provider = "vm"
  /\ providers = setupProviders
  /\ deploy = NoDeploy
  /\ api \in [getGasLimit : BOOLEAN, getValue : BOOLEAN, getAddress : BOOLEAN,
              gasLimit : ContextGasLimits, value : ContextValues]
  /\ kind = "none"
  /\ pc = "idle"
  /\ args = NoArgs
  /\ tx = NoTx
  /\ resolveErr = Undef
  /\ pendingTxs = {}
  /\ ownRunner = FALSE
  /\ hooks = NoHooks
  /\ trace = <<>>
  /\ notif = NoNotif
  /\ cbOut = NoOut
  /\ finalOut = NoOut
  /\ raw = NoRaw
  /\ network = NoNetwork
  /\ startVM = FALSE
  /\ timestamp = Undef

\* resetEnvironment: the current provider is reset and this.txRunner is replaced by
\* a new engine object, whose pendingTxs is empty
resetEnvironment ==
  /\ pendingTxs' = {}
  /\ ownRunner' = FALSE

\* the execution context switches backend and triggers 'contextChanged'
ContextChanged ==
  /\ \E p \in ProviderNames : provider' = p
  /\ resetEnvironment
  /\ UNCHANGED <<providers, deploy, api, kind, pc, args, tx, timestamp, resolveErr, hooks, trace, notif, cbOut, finalOut,
                 raw, network, startVM>>

\* the provider entered into this.providers as well
AddProviderRegisters ==
  /\ providers' = [x \in DOMAIN providers \cup (ProviderNames \ Registered) |-> x]
  /\ UNCHANGED <<provider, api, kind, pc, args, tx, timestamp, resolveErr, pendingTxs,
                 ownRunner, hooks, trace, notif, cbOut, finalOut, raw, network, startVM,
                 deploy>>

\* addProvider, lines 347-349: handed to the execution context, which registers it
\* and triggers 'addProvider'; this.providers and this.txRunner are not touched
AddProvider ==
  /\ providers' = providers
  /\ UNCHANGED <<provider, api, kind, pc, args, tx, timestamp, resolveErr, pendingTxs,
                 ownRunner, hooks, trace, notif, cbOut, finalOut, raw, network, startVM,
                 deploy>>

\* removeProvider, lines 351-353: handed to the execution context likewise
RemoveProvider ==
  /\ providers' = providers
  /\ UNCHANGED <<provider, api, kind, pc, args, tx, timestamp, resolveErr, pendingTxs,
                 ownRunner, hooks, trace, notif, cbOut, finalOut, raw, network, startVM,
                 deploy>>

-----------------------------------------------------------------------------
(* Submission engine: txRunner.rawRun and what it reports *)

\* rawRun takes the record: an entry of pendingTxs is created and the confirmation
\* handshake starts
rawRun ==
  /\ pendingTxs' = {"tx"}
  /\ ownRunner' = TRUE
  /\ hooks' = NoHooks
  /\ pc' = "confirm"

\* the engine object that took the submission drops its pendingTxs entry
removePending == IF ownRunner THEN {} ELSE pendingTxs

\* txExecution.checkVMError: the raw result's execution-failure signal and message
checkVMError(r) ==
  [error |-> r.execResult = "failed",
   message |-> IF r.execResult = "failed" THEN "VMError" ELSE ""]

-----------------------------------------------------------------------------
(* runTx *)

\* lines 451-454
resolveGasLimit == IF api.getGasLimit THEN api.gasLimit ELSE DefaultGasLimit

\* useCall not consulted
resolveValueIgnoresUseCall(a) ==
  IF a.hasValue /\ a.value # 0 THEN a.value
  ELSE IF ~api.getValue THEN 0
  ELSE api.value

\* lines 455-463; if (args.value) is false for an absent value and for 0
resolveValue(a) ==
  IF a.hasValue /\ a.value # 0 THEN a.value
  ELSE IF a.useCall \/ ~api.getValue THEN 0
  ELSE api.value

\* the promise of getAccounts() for what the provider hands to its callback
getAccounts(o) ==
  [rejected |-> o = "error",
   accounts |-> CASE o = "known" -> <<KnownAccount>>
                  [] o = "unknown" -> <<UnknownAccount>>
                  [] OTHER -> <<>>]

\* the catch block leaves the sender unset
resolveFromNoSentinel(res) ==
  IF res.rejected THEN [from |-> Undef, err |-> "ProviderError"]
  ELSE IF res.accounts = <<>> THEN [from |-> Undef, err |-> "No accounts available"]
  ELSE IF isVM /\ res.accounts[1] \notin VMAccounts
    THEN [from |-> Undef, err |-> "Invalid account selected"]
  ELSE [from |-> res.accounts[1], err |-> Undef]

\* lines 472-484: the sender and what the try block threw
resolveFrom(res) ==
  IF res.rejected THEN [from |-> UnknownSender, err |-> "ProviderError"]
  ELSE IF res.accounts = <<>>
    THEN [from |-> UnknownSender, err |-> "No accounts available"]
  ELSE IF isVM /\ res.accounts[1] \notin VMAccounts
    THEN [from |-> UnknownSender, err |-> "Invalid account selected"]
  ELSE [from |-> res.accounts[1], err |-> Undef]

\* line 487: the normalized record
normalize(a, from) ==
  [to |-> a.to, useCall |-> a.useCall, from |-> from, value |-> resolveValue(a),
   gasLimit |-> resolveGasLimit, timestamp |-> a.timestamp]

\* the record's timestamp announced as it is
eventTimestampNoDefault(t) == t.timestamp

\* line 489: tx.timestamp || Date.now()
eventTimestamp(t) == IF t.timestamp # Undef THEN t.timestamp ELSE DateNow

\* lines 487-494: assemble the record, announce it, hand it to the engine; reading
\* args.data.dataHex of an intent without data throws
assemble(a, from, err, tr) ==
  /\ resolveErr' = err
  /\ IF ~a.hasData
       THEN /\ pc' = "threw"
            /\ trace' = tr \o <<"TypeError487">>
            /\ tx' = NoTx
            /\ timestamp' = Undef
            /\ hooks' = NoHooks
            /\ UNCHANGED <<pendingTxs, ownRunner>>
       ELSE /\ tx' = normalize(a, from)
            /\ timestamp' = eventTimestamp(normalize(a, from))
            /\ trace' = tr \o <<"resolve", "initiatingTransaction", "rawRun">>
            /\ rawRun

\* the account list requested whatever the intent and the context give
runTxAlwaysGetAccounts(a, k) ==
  /\ kind' = k
  /\ args' = a
  /\ pc' = "accounts"
  /\ trace' = <<"getAccounts">>
  /\ tx' = NoTx
  /\ timestamp' = Undef
  /\ resolveErr' = Undef
  /\ hooks' = NoHooks
  /\ startVM' = isVM
  /\ UNCHANGED <<pendingTxs, ownRunner>>

\* lines 446-494 up to the first suspension
runTx(a, k) ==
  /\ kind' = k
  /\ args' = a
  /\ IF a.from # Undef THEN assemble(a, a.from, Undef, <<>>)
     ELSE IF api.getAddress THEN assemble(a, ContextAddress, Undef, <<>>)
     ELSE /\ pc' = "accounts"
          /\ trace' = <<"getAccounts">>
          /\ tx' = NoTx
          /\ timestamp' = Undef
          /\ resolveErr' = Undef
          /\ hooks' = NoHooks
          /\ UNCHANGED <<pendingTxs, ownRunner>>
  /\ startVM' = isVM

\* no submission and no request is in progress
Idle == pc = "idle" /\ deploy.mode = "none"

\* a caller submits an intent through runTx
RunTx ==
  /\ Idle
  /\ \E a \in Intents : runTx(a, "runTx")
  /\ UNCHANGED <<provider, providers, deploy, api, notif, cbOut, finalOut, raw, network>>

\* the submissions that go through runTx: a caller's, createContract's, and the
\* deployment of a library the formatter asks for
PipelineKinds == {"runTx", "createContract", "library"}

\* lines 473-494: the account list arrives
AccountsReturn ==
  /\ pc = "accounts"
  /\ kind \in PipelineKinds
  /\ \E o \in AccountsOutcomes :
       LET r == resolveFrom(getAccounts(o))
       IN assemble(args, r.from, r.err, trace)
  /\ UNCHANGED <<provider, providers, deploy, api, kind, args, notif, cbOut, finalOut, raw, network, startVM>>

\* line 499
eventName == IF tx.useCall THEN "callExecuted" ELSE "transactionExecuted"

\* line 500: the executed notification carries the local timestamp
executed(address) == [name |-> eventName, address |-> address, timestamp |-> timestamp]

\* line 498
rawAddress(r) == IF isVM THEN r.createdAddress ELSE r.contractAddress

\* cb(error)
cbError(msg) == [NoOut EXCEPT !.called = 1, !.error = <<msg>>]

\* the address and the return data chosen by the fields the raw result has
cbSuccessByFieldPresence(r) ==
  [called |-> 1, error |-> <<>>, result |-> r,
   address |-> IF r.createdAddress # Undef THEN r.createdAddress ELSE r.contractAddress,
   returnValue |-> IF r.execResult # "absent" THEN "returnValue" ELSE "receipt"]

\* lines 515-523: cb(null, txResult, address, returnValue)
cbSuccess(r) ==
  [called |-> 1, error |-> <<>>, result |-> r,
   address |-> IF isVM THEN r.createdAddress ELSE r.contractAddress,
   returnValue |-> IF r.execResult # "absent" /\ isVM THEN "returnValue" ELSE "receipt"]

\* line 498 reads result.result of a raw result without an inner record
threwAt498 == [events |-> <<"TypeError498">>, notif |-> NoNotif, cb |-> NoOut, threw |-> TRUE]

\* the notification triggered before the error check
runTxCallbackNotifyFirst(error, r) ==
  IF error # Undef
    THEN [events |-> <<eventName, "cb">>, notif |-> executed(Undef),
          cb |-> cbError(error), threw |-> FALSE]
  ELSE IF ~r.hasResult THEN threwAt498
  ELSE [events |-> <<eventName, "classify", "cb">>,
        notif |-> executed(rawAddress(r)),
        cb |-> IF isVM /\ checkVMError(r).error
                 THEN cbError(checkVMError(r).message) ELSE cbSuccess(r),
        threw |-> FALSE]

\* the result classified before the notification, which a failure then skips
runTxCallbackClassifyFirst(error, r) ==
  IF error # Undef
    THEN [events |-> <<"cb">>, notif |-> NoNotif, cb |-> cbError(error), threw |-> FALSE]
  ELSE IF ~r.hasResult THEN threwAt498
  ELSE IF isVM /\ checkVMError(r).error
    THEN [events |-> <<"classify", "cb">>, notif |-> NoNotif,
          cb |-> cbError(checkVMError(r).message), threw |-> FALSE]
  ELSE [events |-> <<"classify", eventName, "cb">>,
        notif |-> executed(rawAddress(r)),
        cb |-> cbSuccess(r), threw |-> FALSE]

\* the execution-failure signal inspected on every backend
runTxCallbackChecksAnyBackend(error, r) ==
  IF error # Undef
    THEN [events |-> <<"cb">>, notif |-> NoNotif, cb |-> cbError(error), threw |-> FALSE]
  ELSE IF ~r.hasResult THEN threwAt498
  ELSE [events |-> <<eventName, "classify", "cb">>,
        notif |-> executed(rawAddress(r)),
        cb |-> IF checkVMError(r).error
                 THEN cbError(checkVMError(r).message) ELSE cbSuccess(r),
        threw |-> FALSE]

\* lines 495-524: the engine's result callback of runTx
runTxCallback(error, r) ==
  IF error # Undef
    THEN [events |-> <<"cb">>, notif |-> NoNotif, cb |-> cbError(error), threw |-> FALSE]
  ELSE IF ~r.hasResult THEN threwAt498
  ELSE [events |-> <<eventName, "classify", "cb">>,
        notif |-> executed(rawAddress(r)),
        cb |-> IF isVM /\ checkVMError(r).error
                 THEN cbError(checkVMError(r).message) ELSE cbSuccess(r),
        threw |-> FALSE]

\* the status of the receipt not inspected
createContractCallbackNoStatus(c) ==
  IF c.error # <<>>
    THEN [NoOut EXCEPT !.called = 1, !.error = <<"creation errored">> \o c.error]
  ELSE [NoOut EXCEPT !.called = 1, !.address = c.address]

\* lines 116-124: the callback createContract gives to runTx
createContractCallback(c) ==
  IF c.error # <<>>
    THEN [called |-> 1, error |-> <<"creation errored">> \o c.error, result |-> NoResult,
          address |-> Undef, returnValue |-> Undef]
  ELSE IF c.result.status # Undef /\ c.result.status = "0x0"
    THEN [called |-> 1, error |-> <<"creation errored", "transaction execution failed">>,
          result |-> NoResult, address |-> Undef, returnValue |-> Undef]
  ELSE [called |-> 1, error |-> <<>>, result |-> NoResult, address |-> c.address,
        returnValue |-> Undef]

\* runTxCallback handed to runTx as the continue hook by both callers
runTxCallbackSlotContinueCb(mode) == "continueCb"

\* lines 93 and 329: the parameter of runTx in which the function that deploys a
\* library passes the formatter's continuation runTxCallback
runTxCallbackSlot(mode) ==
  IF mode = "runOrCallContractMethod" THEN "continueCb" ELSE "cb"

\* the formatter's continuation runTxCallback(error, ...) is invoked: the formatter
\* takes the library as deployed and goes on linking, or keeps the error to report
formatterContinuation(slot, hasError) ==
  [deploy EXCEPT !.log = Append(@, <<slot, Head(deploy.todo)>>),
                 !.todo = IF hasError THEN @ ELSE Tail(@),
                 !.stage = IF hasError THEN "failed" ELSE "linking"]

\* lines 315-322: the callback runOrCallContractMethod gives to runTx
runOrCallCallback(c) ==
  IF c.error # <<>> THEN [deploy EXCEPT !.log = Append(@, <<"logCallback", "errored">>)]
  ELSE IF deploy.lookupOnly THEN [deploy EXCEPT !.log = Append(@, <<"outputCb", c.returnValue>>)]
  ELSE deploy

\* what the result callback given to runTx does to the request in progress
afterCb(c) ==
  IF kind = "library" /\ runTxCallbackSlot(deploy.mode) = "cb"
    THEN formatterContinuation("cb", c.error # <<>>)
  ELSE IF kind = "runTx" /\ deploy.mode = "runOrCallContractMethod"
    THEN runOrCallCallback(c)
  ELSE deploy

\* the engine reports (error, result) to the result callback runTx gave it
deliverRest(error, r) ==
  LET out == runTxCallback(error, r)
  IN /\ notif' = out.notif
     /\ deploy' = IF out.threw THEN deploy ELSE afterCb(out.cb)
     /\ cbOut' = out.cb
     /\ pc' = IF out.threw THEN "threw" ELSE "done"
     /\ finalOut' = IF kind = "createContract" /\ ~out.threw
                      THEN createContractCallback(out.cb) ELSE finalOut
     /\ pendingTxs' = removePending
     /\ raw' = [reported |-> TRUE, error |-> error, result |-> r]

deliver(error, r) ==
  /\ trace' = trace \o runTxCallback(error, r).events
  /\ deliverRest(error, r)

\* createContract, lines 108-126
createContract(hasData) ==
  runTx([hasData |-> hasData, useCall |-> FALSE, to |-> Undef, hasValue |-> FALSE,
         value |-> 0, from |-> Undef, timestamp |-> Undef], "createContract")

CreateContract ==
  /\ Idle
  /\ \E d \in BOOLEAN : createContract(d)
  /\ UNCHANGED <<provider, providers, deploy, api, notif, cbOut, finalOut, raw, network>>

-----------------------------------------------------------------------------
(* The confirmation handshake with caller-supplied hooks (runTx, createContract) *)

CallerKinds == {"runTx", "createContract"}

\* a hook of the caller is invoked and calls one of its two continuations; on
\* cancel the engine reports the cancellation to its result callback
callerHook(at, hook, next) ==
  /\ pc = at
  /\ kind \in PipelineKinds
  /\ kind = "library" => runTxCallbackSlot(deploy.mode) # hook
  /\ \E c \in {"proceed", "cancel"} :
       /\ hooks' = [hooks EXCEPT ![hook] = c]
       /\ IF c = "proceed"
            THEN /\ pc' = next
                 /\ trace' = Append(trace, hook)
                 /\ UNCHANGED <<notif, cbOut, finalOut, pendingTxs, raw, deploy>>
            ELSE /\ trace' = Append(trace, hook) \o runTxCallback("UserCancelled", NoResult).events
                 /\ deliverRest("UserCancelled", NoResult)
  /\ UNCHANGED <<provider, providers, api, kind, args, tx, timestamp, resolveErr, ownRunner,
                 network, startVM>>

ConfirmationCb == callerHook("confirm", "confirmationCb", "continue")
ContinueCb == callerHook("continue", "continueCb", "prompt")
PromptCb == callerHook("prompt", "promptCb", "dispatch")

\* the engine hands the record to the backend
Dispatch ==
  /\ pc = "dispatch"
  /\ pc' = "inflight"
  /\ trace' = Append(trace, "dispatch")
  /\ UNCHANGED <<provider, providers, deploy, api, kind, args, tx, timestamp, resolveErr, pendingTxs, ownRunner,
                 hooks, notif, cbOut, finalOut, raw, network, startVM>>

\* the backend resolves: a transport-level error or a raw result
Result ==
  /\ pc = "inflight"
  /\ kind \in PipelineKinds
  /\ \/ deliver("EngineError", NoResult)
     \/ \E r \in RawResults : deliver(Undef, r)
  /\ UNCHANGED <<provider, providers, api, kind, args, tx, timestamp, resolveErr, ownRunner, hooks, network,
                 startVM>>

\* the continue hook of a library submission is the formatter's continuation: it is
\* given the estimation error or none, and calls neither continuation of the engine
LibraryContinueCb ==
  /\ pc = "continue"
  /\ kind = "library"
  /\ runTxCallbackSlot(deploy.mode) = "continueCb"
  /\ \E error \in BOOLEAN : deploy' = formatterContinuation("continueCb", error)
  /\ hooks' = [hooks EXCEPT !.continueCb = "neither"]
  /\ pc' = "stalled"
  /\ trace' = Append(trace, "continueCb")
  /\ UNCHANGED <<provider, providers, api, kind, args, tx, timestamp, resolveErr, pendingTxs,
                 ownRunner, notif, cbOut, finalOut, raw, network, startVM>>

-----------------------------------------------------------------------------
(* Deployment and method requests, lines 83-106 and 299-331 *)

\* the request is handed to the formatter
request(mode, plan) ==
  /\ Idle
  /\ deploy' = [NoDeploy EXCEPT !.mode = mode, !.todo = plan, !.stage = "linking"]
  /\ UNCHANGED <<provider, providers, api, kind, pc, args, tx, timestamp, resolveErr,
                 pendingTxs, ownRunner, hooks, trace, notif, cbOut, finalOut, raw, network,
                 startVM>>

\* lines 83-86: txFormat.buildData is given a function that deploys libraries
DeployContractAndLibraries ==
  \E plan \in LibraryPlans : request("deployContractAndLibraries", plan)

\* lines 97-100: txFormat.encodeConstructorCallAndLinkLibraries is given none
DeployContractWithLibrary == request("deployContractWithLibrary", <<>>)

\* lines 299-303
RunOrCallContractMethod ==
  \E plan \in LibraryPlans : request("runOrCallContractMethod", plan)

\* a submission of the request starts in the place of the one that is over
nextSubmission ==
  /\ notif' = NoNotif
  /\ cbOut' = NoOut
  /\ finalOut' = NoOut
  /\ raw' = NoRaw
  /\ UNCHANGED <<provider, providers, api, network>>

\* nothing is submitted in the place of the one that is over
noSubmission ==
  /\ kind' = "none"
  /\ pc' = "idle"
  /\ args' = NoArgs
  /\ tx' = NoTx
  /\ timestamp' = Undef
  /\ resolveErr' = Undef
  /\ hooks' = NoHooks
  /\ trace' = <<>>
  /\ startVM' = FALSE
  /\ nextSubmission
  /\ UNCHANGED <<pendingTxs, ownRunner>>

\* lines 91-94 and 327-330: the function that deploys a library for the formatter
deployLibrary(l) ==
  /\ deploy' = [deploy EXCEPT !.stage = "library", !.log = Append(@, <<"runTx", l>>)]
  /\ runTx(LibraryIntent, "library")
  /\ nextSubmission

\* the error reported to statusCb and the creation submitted all the same
deployCallbackNoReturn(error, hasData) ==
  /\ deploy' = [deploy EXCEPT
                  !.stage = "primary",
                  !.log = @ \o (IF error THEN <<<<"statusCb", "errored">>>> ELSE <<>>)
                            \o <<<<"statusCb", "pending">>, <<"createContract", "primary">>>>]
  /\ createContract(hasData)
  /\ nextSubmission

\* lines 86-90 and 100-104: the callback both deployment modes give to the formatter
deployCallback(error, hasData) ==
  IF error
    THEN /\ deploy' = [deploy EXCEPT !.stage = "ended",
                                     !.log = Append(@, <<"statusCb", "errored">>)]
         /\ noSubmission
    ELSE /\ deploy' = [deploy EXCEPT
                         !.stage = "primary",
                         !.log = @ \o <<<<"statusCb", "pending">>,
                                        <<"createContract", "primary">>>>]
         /\ createContract(hasData)
         /\ nextSubmission

\* lines 303-322: the callback runOrCallContractMethod gives to the formatter
buildDataCallback(error, useCall, lookupOnly) ==
  IF error
    THEN /\ deploy' = [deploy EXCEPT !.stage = "ended",
                                     !.log = Append(@, <<"logCallback", "errored">>)]
         /\ noSubmission
    ELSE /\ deploy' = [deploy EXCEPT
                         !.stage = "primary",
                         !.lookupOnly = lookupOnly,
                         !.log = @ \o <<<<"logCallback", IF lookupOnly THEN "" ELSE "pending">>,
                                        <<"runTx", "primary">>>>]
         /\ runTx([LibraryIntent EXCEPT !.to = "0xT", !.useCall = useCall], "runTx")
         /\ nextSubmission

\* the formatter asks for the deployment of the next library
FormatterDeployLibrary ==
  /\ deploy.stage = "linking"
  /\ deploy.todo # <<>>
  /\ deployLibrary(Head(deploy.todo))

\* the formatter hands the assembled data to its callback
FormatterData ==
  /\ deploy.stage = "linking"
  /\ deploy.todo = <<>>
  /\ IF deploy.mode \in DeployModes
       THEN \E hasData \in BOOLEAN : deployCallback(FALSE, hasData)
       ELSE \E useCall, lookupOnly \in BOOLEAN : buildDataCallback(FALSE, useCall, lookupOnly)

\* the formatter reports an error to its callback: its own, or the one its
\* continuation was given for a library
FormatterError ==
  /\ deploy.stage \in {"linking", "failed"}
  /\ IF deploy.mode \in DeployModes
       THEN deployCallback(TRUE, FALSE)
       ELSE buildDataCallback(TRUE, FALSE, FALSE)

-----------------------------------------------------------------------------
(* callMethod, lines 236-297 *)

\* line 278: the record of a call; no 'initiatingTransaction' is triggered (line 283)
callRecord(from) ==
  [to |-> "0xT", useCall |-> TRUE, from |-> from, value |-> 0, gasLimit |-> resolveGasLimit,
   timestamp |-> DateNow]

\* lines 236-286 up to the first suspension
CallMethod ==
  /\ Idle
  /\ kind' = "callMethod"
  /\ IF api.getAddress
       THEN /\ tx' = callRecord(ContextAddress)
            /\ timestamp' = eventTimestamp(callRecord(ContextAddress))
            /\ pc' = "call"
            /\ trace' = <<"resolve", "callMethod">>
       ELSE /\ pc' = "accounts"
            /\ trace' = <<"getAccounts">>
            /\ UNCHANGED <<tx, timestamp>>
  /\ startVM' = isVM
  /\ UNCHANGED <<provider, providers, deploy, api, args, resolveErr, pendingTxs, ownRunner, hooks, notif,
                 cbOut, finalOut, raw, network>>

\* lines 262-286: the account list arrives
CallMethodAccountsReturn ==
  /\ pc = "accounts"
  /\ kind = "callMethod"
  /\ \E o \in AccountsOutcomes :
       LET r == resolveFrom(getAccounts(o))
       IN /\ tx' = callRecord(r.from)
          /\ timestamp' = eventTimestamp(callRecord(r.from))
          /\ resolveErr' = r.err
  /\ pc' = "call"
  /\ trace' = trace \o <<"resolve", "callMethod">>
  /\ UNCHANGED <<provider, providers, deploy, api, kind, args, pendingTxs, ownRunner, hooks, notif, cbOut,
                 finalOut, raw, network, startVM>>

\* lines 286-295: the provider's callMethod returns a value, or its promise rejects
CallMethodReturn ==
  /\ pc = "call"
  /\ \E ok \in BOOLEAN :
       IF ok
         THEN /\ trace' = trace \o <<"callExecuted", "outputCb">>
              /\ notif' = [name |-> "callExecuted", address |-> tx.to, timestamp |-> timestamp]
              /\ finalOut' = [NoOut EXCEPT !.called = 1, !.returnValue = "returnValue"]
              /\ pc' = "done"
         ELSE /\ trace' = Append(trace, "rejected")
              /\ pc' = "threw"
              /\ UNCHANGED <<notif, finalOut>>
  /\ UNCHANGED <<provider, providers, deploy, api, kind, args, tx, timestamp, resolveErr, pendingTxs, ownRunner, hooks,
                 cbOut, raw, network, startVM>>

-----------------------------------------------------------------------------
(* sendTransaction, lines 416-440 *)

\* the network id compared with another spelling of 1
isMainnetOtherId(n) == n.name = "Main" /\ n.id = "0x1"

\* line 420
isMainnet(n) == n.name = "Main" /\ n.id = "1"

\* the promise is settled by the first resolve or reject
settle(err) ==
  IF finalOut.called = 0 THEN [NoOut EXCEPT !.called = 1, !.error = err] ELSE finalOut

SendTransaction ==
  /\ Idle
  /\ kind' = "sendTransaction"
  /\ pc' = "detect"
  /\ trace' = <<"detectNetwork">>
  /\ startVM' = isVM
  /\ UNCHANGED <<provider, providers, deploy, api, args, tx, timestamp, resolveErr, pendingTxs, ownRunner, hooks, notif,
                 cbOut, finalOut, raw, network>>

\* lines 418-424: network detection reports an error or a network
DetectNetworkReturn ==
  /\ pc = "detect"
  /\ \/ /\ finalOut' = settle(<<"NetworkError">>)
        /\ pc' = "done"
        /\ trace' = Append(trace, "reject")
        /\ UNCHANGED <<pendingTxs, ownRunner, hooks, network>>
     \/ \E n \in Networks :
          /\ network' = n
          /\ IF isMainnet(n)
               THEN /\ finalOut' = settle(<<"MainnetDisallowed">>)
                    /\ pc' = "done"
                    /\ trace' = Append(trace, "reject")
                    /\ UNCHANGED <<pendingTxs, ownRunner, hooks>>
               ELSE /\ trace' = Append(trace, "rawRun")
                    /\ rawRun
                    /\ UNCHANGED finalOut
  /\ UNCHANGED <<provider, providers, deploy, api, kind, args, tx, timestamp, resolveErr, notif, cbOut, raw, startVM>>

\* line 426: the confirmation hook of sendTransaction
sendTxConfirmationCb == "proceed"

\* line 427: the continue hook of sendTransaction, given an estimation error or none
sendTxContinueCb(error) == IF error THEN "neither" ELSE "proceed"

\* line 428: the prompt hook of sendTransaction
sendTxPromptCb == "proceed"

\* the engine after a hook: it goes on, reports the cancellation, or waits for a
\* continuation that is never called
afterHook(called, next) ==
  CASE called = "proceed" -> next
    [] called = "cancel" -> "done"
    [] OTHER -> "stalled"

SendTxConfirmationCb ==
  /\ pc = "confirm"
  /\ kind = "sendTransaction"
  /\ hooks' = [hooks EXCEPT !.confirmationCb = sendTxConfirmationCb]
  /\ pc' = afterHook(sendTxConfirmationCb, "continue")
  /\ trace' = Append(trace, "confirmationCb")
  /\ UNCHANGED <<provider, providers, deploy, api, kind, args, tx, timestamp, resolveErr, pendingTxs, ownRunner, notif,
                 cbOut, finalOut, raw, network, startVM>>

SendTxContinueCb ==
  /\ pc = "continue"
  /\ kind = "sendTransaction"
  /\ \E error \in BOOLEAN :
       /\ hooks' = [hooks EXCEPT !.continueCb = sendTxContinueCb(error)]
       /\ pc' = afterHook(sendTxContinueCb(error), "prompt")
       /\ finalOut' = IF error THEN settle(<<"EstimationError">>) ELSE finalOut
       /\ trace' = trace \o (IF error THEN <<"continueCb", "reject">> ELSE <<"continueCb">>)
  /\ UNCHANGED <<provider, providers, deploy, api, kind, args, tx, timestamp, resolveErr, pendingTxs, ownRunner, notif,
                 cbOut, raw, network, startVM>>

SendTxPromptCb ==
  /\ pc = "prompt"
  /\ kind = "sendTransaction"
  /\ hooks' = [hooks EXCEPT !.promptCb = sendTxPromptCb]
  /\ pc' = afterHook(sendTxPromptCb, "dispatch")
  /\ trace' = Append(trace, "promptCb")
  /\ UNCHANGED <<provider, providers, deploy, api, kind, args, tx, timestamp, resolveErr, pendingTxs, ownRunner, notif,
                 cbOut, finalOut, raw, network, startVM>>

\* lines 429-436: the engine's result callback of sendTransaction; resultToRemixTx
\* returns or throws
SendTxResult ==
  /\ pc = "inflight"
  /\ kind = "sendTransaction"
  /\ \E o \in {"EngineError", "ConversionError", "ok"} :
       /\ finalOut' = settle(IF o = "ok" THEN <<>> ELSE <<o>>)
       /\ trace' = Append(trace, IF o = "ok" THEN "resolve" ELSE "reject")
  /\ pc' = "done"
  /\ pendingTxs' = removePending
  /\ raw' = [reported |-> TRUE, error |-> Undef, result |-> NoResult]
  /\ UNCHANGED <<provider, providers, deploy, api, kind, args, tx, timestamp, resolveErr, ownRunner, hooks, notif, cbOut,
                 network, startVM>>

\* the submission is over; the next one may start
Finish ==
  /\ \/ pc \in {"done", "threw"}
     \/ pc = "stalled" /\ ~ownRunner
     \/ pc = "idle" /\ deploy.stage = "ended"
  /\ deploy.stage \notin {"linking", "failed"}
  /\ deploy' = NoDeploy
  /\ kind' = "none"
  /\ pc' = "idle"
  /\ args' = NoArgs
  /\ tx' = NoTx
  /\ timestamp' = Undef
  /\ resolveErr' = Undef
  /\ hooks' = NoHooks
  /\ trace' = <<>>
  /\ notif' = NoNotif
  /\ cbOut' = NoOut
  /\ finalOut' = NoOut
  /\ raw' = NoRaw
  /\ network' = NoNetwork
  /\ startVM' = FALSE
  /\ UNCHANGED <<provider, providers, api, pendingTxs, ownRunner>>

Next ==
  \/ ContextChanged
  \/ AddProvider
  \/ RemoveProvider
  \/ RunTx
  \/ CreateContract
  \/ AccountsReturn
  \/ ConfirmationCb
  \/ ContinueCb
  \/ PromptCb
  \/ Dispatch
  \/ Result
  \/ LibraryContinueCb
  \/ DeployContractAndLibraries
  \/ DeployContractWithLibrary
  \/ RunOrCallContractMethod
  \/ FormatterDeployLibrary
  \/ FormatterData
  \/ FormatterError
  \/ CallMethod
  \/ CallMethodAccountsReturn
  \/ CallMethodReturn
  \/ SendTransaction
  \/ DetectNetworkReturn
  \/ SendTxConfirmationCb
  \/ SendTxContinueCb
  \/ SendTxPromptCb
  \/ SendTxResult
  \/ Finish

Spec == Init /\ [][Next]_vars

-----------------------------------------------------------------------------
(* Properties *)

Executed == {"callExecuted", "transactionExecuted"}

InTrace(l) == \E i \in DOMAIN trace : trace[i] = l

Count(l) == Cardinality({i \in DOMAIN trace : trace[i] = l})

Before(a, b) ==
  \A j \in DOMAIN trace : trace[j] = b => \E i \in 1..(j - 1) : trace[i] = a

Cancelled == kind \in CallerKinds /\ \E h \in DOMAIN hooks : hooks[h] = "cancel"

\* C1: a runTx submission cancelled at any of the three hooks is never dispatched,
\* emits no executed notification and ends with UserCancelled handed to cb.
C1_CancelNoDispatchNoExecuted ==
  Cancelled =>
    /\ ~InTrace("dispatch")
    /\ \A e \in Executed : ~InTrace(e)
    /\ notif = NoNotif
    /\ pc = "done"
    /\ cbOut.called = 1
    /\ cbOut.error = <<"UserCancelled">>

\* a submission cancelled at the last hook, after the first two proceeded
C1_Witness ==
  /\ kind = "runTx"
  /\ hooks = [confirmationCb |-> "proceed", continueCb |-> "proceed", promptCb |-> "cancel"]
  /\ cbOut.error = <<"UserCancelled">>

\* C2: every callExecuted or transactionExecuted notification of a submission, from
\* runTx or from callMethod, is preceded by an initiatingTransaction notification of
\* that submission.
C2_InitiatingPrecedesExecuted ==
  \A e \in Executed : Before("initiatingTransaction", e)

\* the stage a step of runTx belongs to, in the order the code runs them
StageInCode(l) ==
  CASE l \in {"getAccounts", "resolve", "TypeError487"} -> 1
    [] l = "initiatingTransaction" -> 2
    [] l \in {"rawRun", "confirmationCb", "continueCb", "promptCb"} -> 3
    [] l = "dispatch" -> 4
    [] l \in Executed \cup {"TypeError498"} -> 5
    [] l = "classify" -> 6
    [] OTHER -> 7

\* the same with Classify before Notify
StageInSpec(l) ==
  CASE l \in Executed -> 6
    [] l = "classify" -> 5
    [] OTHER -> StageInCode(l)

Ordered(Stage(_)) ==
  \A i, j \in DOMAIN trace : i < j => /\ Stage(trace[i]) <= Stage(trace[j])
                                      /\ trace[i] # trace[j]

\* an error at a stage leaves every later stage out
ShortCircuits ==
  /\ cbOut.error = <<"UserCancelled">> =>
       ~InTrace("dispatch") /\ ~InTrace("classify") /\ \A e \in Executed : ~InTrace(e)
  /\ cbOut.error = <<"EngineError">> =>
       ~InTrace("classify") /\ \A e \in Executed : ~InTrace(e)
  /\ pc = "threw" =>
       /\ trace[Len(trace)] \in {"TypeError487", "TypeError498"}
       /\ trace[Len(trace)] = "TypeError487" => ~InTrace("initiatingTransaction")
       /\ ~InTrace("classify") /\ ~InTrace("cb") /\ \A e \in Executed : ~InTrace(e)

C4_ResolutionErrorsReported ==
  (kind \in CallerKinds /\ args.hasData
     /\ resolveErr \in {"No accounts available", "Invalid account selected"}) =>
    /\ ~InTrace("rawRun")
    /\ cbOut.called = 1
    /\ cbOut.error = <<resolveErr>>

\* C5: when the account-list retrieval itself fails, the error does not reach cb:
\* the sender is the sentinel 0, initiatingTransaction is emitted and the record is
\* handed to the engine exactly once (for an intent that carries data).
C5_ProviderErrorSwallowed ==
  (kind \in CallerKinds /\ resolveErr = "ProviderError") =>
    /\ cbOut.error # <<"ProviderError">>
    /\ args.hasData =>
         /\ tx.from = UnknownSender
         /\ Count("initiatingTransaction") = 1
         /\ Count("rawRun") = 1
         /\ Before("initiatingTransaction", "rawRun")

\* the account list could not be retrieved and the record is with the backend
C5_Witness ==
  /\ kind = "runTx"
  /\ resolveErr = "ProviderError"
  /\ pc = "inflight"
  /\ tx.from = UnknownSender

Assembled == kind \in CallerKinds /\ InTrace("initiatingTransaction")

\* C6 as stated: with useCall = true the value of the normalized record is 0,
\* whatever the intent's explicit value and the context's default.
C6_UseCallValueAlwaysZero ==
  (Assembled /\ args.useCall) => tx.value = 0

\* C6 amended: with useCall = true and no non-zero explicit value, the value of the
\* normalized record is 0 whatever the context's default-value accessor returns; a
\* non-zero explicit value is used as given.
C6_UseCallValueZeroUnlessExplicit ==
  (Assembled /\ args.useCall) =>
    tx.value = IF args.hasValue /\ args.value # 0 THEN args.value ELSE 0

\* a call on a context whose default value is not 0
C6_Witness ==
  /\ Assembled
  /\ args.useCall
  /\ ~args.hasValue
  /\ api.getValue
  /\ api.value # 0
  /\ tx.value = 0

Mainnet == [name |-> "Main", id |-> "1"]

\* C7: sendTransaction on a detected network {id: '1', name: 'Main'} rejects with the
\* mainnet-disallowed error and never calls rawRun; every sendTransaction that calls
\* rawRun has had its network detected first.
C7_MainnetNeverDispatched ==
  kind = "sendTransaction" =>
    /\ network = Mainnet =>
         /\ ~InTrace("rawRun")
         /\ ~InTrace("dispatch")
         /\ pc = "done"
         /\ finalOut.called = 1
         /\ finalOut.error = <<"MainnetDisallowed">>
    /\ InTrace("rawRun") => network \in Networks /\ Before("detectNetwork", "rawRun")

\* sendTransaction rejected on the main network
C7_Witness ==
  /\ kind = "sendTransaction"
  /\ network = Mainnet
  /\ finalOut.error = <<"MainnetDisallowed">>

\* C8: when the engine reports a raw result with an execution-failure signal, runTx
\* hands cb the backend's message as error if the Simulated backend is active, and
\* on any other backend hands cb the same raw result as a success.
C8_RevertOnlyOnSimulated ==
  [][(/\ pc = "inflight"
      /\ kind \in CallerKinds
      /\ raw'.reported
      /\ raw'.error = Undef
      /\ raw'.result.execResult = "failed") =>
       /\ cbOut'.called = 1
       /\ IF isVM
            THEN cbOut'.error = <<checkVMError(raw'.result).message>>
            ELSE cbOut'.error = <<>> /\ cbOut'.result = raw'.result]_vars

\* a failed execution reported on the Simulated backend
C8_Witness ==
  /\ kind \in CallerKinds
  /\ raw.reported
  /\ raw.result.execResult = "failed"
  /\ cbOut.error = <<"VMError">>

ZeroStatusCreation ==
  /\ kind = "createContract"
  /\ raw.reported
  /\ raw.error = Undef
  /\ raw.result.status = "0x0"

CreationFailed ==
  /\ finalOut.called = 1
  /\ finalOut.error # <<>>
  /\ Head(finalOut.error) = "creation errored"
  /\ finalOut.address = Undef

\* C9 as stated: a creation whose result has a zero status is reported to finalCb as
\* a creation failure though the engine raised no error, and no created address is
\* handed to the caller or carried by a notification.
C9_ZeroStatusNoAddressAnywhere ==
  ZeroStatusCreation => CreationFailed /\ notif.address = Undef

\* C9 amended: such a creation is reported to finalCb as a creation failure and no
\* address is handed to finalCb; the transactionExecuted notification, emitted before
\* the status is inspected, carries the address field of the raw result.
C9_ZeroStatusCreationFailed ==
  ZeroStatusCreation =>
    /\ CreationFailed
    /\ notif.name = "transactionExecuted"
    /\ notif.address \in {raw.result.createdAddress, raw.result.contractAddress}

\* a zero-status receipt with a contract address, without an execution-failure signal
C9_Witness ==
  /\ ZeroStatusCreation
  /\ raw.result.execResult # "failed"
  /\ finalOut.error = <<"creation errored", "transaction execution failed">>
  /\ notif.address # Undef

\* C10: each of the three hooks sendTransaction gives to the engine calls exactly one
\* of its two continuations whenever it is invoked, also when the continue hook is
\* given an estimation error.
C10_HooksCallExactlyOne ==
  kind = "sendTransaction" =>
    \A h \in DOMAIN hooks : hooks[h] \in {"-", "proceed", "cancel"}

\* the engine reported a raw result with an inner record and no error
Reported == kind \in CallerKinds /\ raw.reported /\ raw.error = Undef /\ raw.result.hasResult

\* C11: runTx reads the backend kind once, when the submission starts: if the
\* execution context switches backend while the submission is in flight, the
\* created-address field, the revert check and the return data still follow the
\* backend kind of the start, and the notification and cb agree on the address.
C11_BackendKindOfStart ==
  Reported =>
    /\ notif.address = IF startVM THEN raw.result.createdAddress
                       ELSE raw.result.contractAddress
    /\ cbOut.called = 1
    /\ IF startVM /\ raw.result.execResult = "failed"
         THEN cbOut.error = <<"VMError">>
         ELSE /\ cbOut.error = <<>>
              /\ cbOut.address = notif.address
              /\ (cbOut.returnValue = "returnValue") = (startVM /\ raw.result.execResult # "absent")

\* C12: for an intent with an explicit from, the provider's getAccounts is never
\* called during the submission and the normalized record's from is that from.
C12_ExplicitFromNoAccountQuery ==
  (kind \in CallerKinds /\ args.from # Undef) =>
    /\ ~InTrace("getAccounts")
    /\ pc # "accounts"
    /\ InTrace("initiatingTransaction") => tx.from = args.from

\* an explicit sender on a context without a default-address accessor
C12_Witness ==
  /\ kind = "runTx"
  /\ args.from = ExplicitFrom
  /\ ~api.getAddress
  /\ pc = "inflight"
  /\ tx.from = ExplicitFrom

\* C16: the gas limit and the value of the normalized record follow the reference
\* rule: gasLimit is getGasLimit() when the accessor exists, else 3000000; value is
\* the intent's explicit value whenever one is present, an explicit zero included,
\* else 0 when useCall is set or no getValue accessor exists, else getValue().
C16_GasValueReferenceRule ==
  Assembled =>
    /\ tx.gasLimit = IF api.getGasLimit THEN api.gasLimit ELSE DefaultGasLimit
    /\ tx.value = IF args.hasValue THEN args.value
                  ELSE IF args.useCall \/ ~api.getValue THEN 0
                  ELSE api.value

\* C17: the normalized record always has a defined timestamp, the intent's when it
\* set one and the submission time otherwise, and the initiating and the executed
\* notification of one submission carry the same timestamp.
C17_RecordTimestampDefined ==
  Assembled =>
    /\ tx.timestamp = IF args.timestamp # Undef THEN args.timestamp ELSE DateNow
    /\ timestamp = tx.timestamp
    /\ notif.name # Undef => notif.timestamp = timestamp

\* C17, amended: the timestamp announced with the record is always defined, the
\* intent's when it set one and the submission time otherwise, and the executed
\* notification carries the same one; the record's own timestamp field is the
\* intent's, undefined when the intent set none.
C17_AnnouncedTimestampDefined ==
  Assembled =>
    /\ timestamp = IF args.timestamp # Undef THEN args.timestamp ELSE DateNow
    /\ tx.timestamp = args.timestamp
    /\ notif.name # Undef => notif.timestamp = timestamp

\* an intent without a timestamp, announced and notified as executed
C17_Witness ==
  /\ kind = "runTx"
  /\ args.hasData /\ args.timestamp = Undef
  /\ tx.timestamp = Undef
  /\ InTrace("initiatingTransaction")
  /\ notif.name \in Executed
  /\ notif.timestamp = DateNow

\* the engine's raw result is handed to cb of runTx as a success in this step
SuccessDelivered ==
  /\ kind \in CallerKinds
  /\ cbOut.called = 0
  /\ cbOut'.called = 1
  /\ cbOut'.error = <<>>

\* C18: for every successful raw result the address and the return data handed to
\* cb are selected by the backend kind, not by the fields the raw result has: on the
\* Simulated backend createdAddress and the inline return value, on any other
\* backend contractAddress and the full receipt.
C18_SelectedByBackendKind ==
  [][SuccessDelivered =>
       /\ cbOut'.address = IF isVM THEN raw'.result.createdAddress
                           ELSE raw'.result.contractAddress
       /\ cbOut'.returnValue = IF isVM THEN "returnValue" ELSE "receipt"]_vars

\* C18, amended: the address is selected by the backend kind alone; the return data
\* is the inline return value on the Simulated backend when the raw result has an
\* execResult record, and the full receipt in every other case.
C18_AddressByKindReturnByExecResult ==
  [][SuccessDelivered =>
       /\ cbOut'.address = IF isVM THEN raw'.result.createdAddress
                           ELSE raw'.result.contractAddress
       /\ cbOut'.returnValue = IF isVM /\ raw'.result.execResult # "absent"
                                 THEN "returnValue" ELSE "receipt"]_vars

\* a raw result with both address fields and an execResult, delivered on a backend
\* that is not the Simulated one
C18_Witness ==
  /\ kind = "runTx"
  /\ cbOut.called = 1 /\ cbOut.error = <<>>
  /\ raw.result.createdAddress # Undef
  /\ raw.result.contractAddress # Undef
  /\ raw.result.execResult = "ok"
  /\ cbOut.address = raw.result.contractAddress
  /\ cbOut.returnValue = "receipt"

\* C19: after construction and after any addProvider, removeProvider and context
\* change, the provider table holds exactly the three pre-registered providers, and
\* getCurrentProvider() never fails: it is the provider registered under the name the
\* execution context reports when that is one of the three, and web3 otherwise.
C19_ThreeProvidersAndFallback ==
  /\ DOMAIN providers = {"vm", "injected", "web3"}
  /\ getCurrentProvider = IF provider \in {"vm", "injected", "web3"}
                            THEN providers[provider] ELSE providers["web3"]
  /\ getCurrentProvider \in {"vm", "injected", "web3"}

\* the execution context reports a name that is not in the table, while a submission
\* that started under another name is in progress
C19_Witness ==
  /\ provider \notin DOMAIN providers
  /\ getCurrentProvider = "web3"
  /\ pc = "inflight"

\* the submission in progress was handed to the engine, whose backend has neither
\* resolved it nor seen it cancelled
InFlight ==
  /\ kind \in CallerKinds
  /\ pc \in {"confirm", "continue", "prompt", "dispatch", "inflight"}

\* C15: pendingTransactionsCount() is the number of submissions handed to the engine
\* whose backend has neither resolved nor been cancelled, in every reachable state
\* and across any interleaving with context changes and resetEnvironment calls.
C15_PendingCountIsInFlight ==
  kind \in CallerKinds => pendingTransactionsCount = IF InFlight THEN 1 ELSE 0

\* the request in progress logged the entry e
Logged(e) == \E i \in DOMAIN deploy.log : deploy.log[i] = e

\* a library was submitted through runTx for the request in progress
LibrarySubmitted == \E i \in DOMAIN deploy.log : deploy.log[i][1] = "runTx"

\* the creation of the primary contract was handed to createContract
PrimarySubmitted == Logged(<<"createContract", "primary">>)

\* the formatter's error was reported to statusCb
FormatterErrored == Logged(<<"statusCb", "errored">>)

\* an error of the pipeline handed to the callback createContract gave to runTx
PipelineErrored == kind = "createContract" /\ cbOut.called = 1 /\ cbOut.error # <<>>

\* finalCb given 'creation of <name> errored: ...'
ReportedToFinalCb ==
  /\ finalOut.called = 1
  /\ finalOut.error # <<>>
  /\ finalOut.error[1] = "creation errored"

\* C13: in both deployment modes a formatter error aborts before any transaction
\* is submitted through runTx for the request, library sub-deployments included,
\* and an error of the pipeline after submission is reported to finalCb with the
\* message 'creation of <name> errored: ...'.
C13_FormatterErrorBeforeAnySubmission ==
  deploy.mode \in DeployModes =>
    /\ FormatterErrored => ~LibrarySubmitted /\ ~PrimarySubmitted
    /\ PipelineErrored => ReportedToFinalCb

\* C13, amended: a formatter error ends the request without createContract being
\* called, so the creation of the primary contract is never submitted; in
\* deployContractWithLibrary nothing at all is submitted, while in
\* deployContractAndLibraries the libraries the formatter asked for before it
\* reported the error have been submitted.  An error of the pipeline after the
\* submission of the creation is reported to finalCb.
C13_FormatterErrorNoCreation ==
  deploy.mode \in DeployModes =>
    /\ FormatterErrored =>
         /\ ~PrimarySubmitted
         /\ deploy.stage = "ended"
         /\ kind = "none"
         /\ deploy.log[Len(deploy.log)] = <<"statusCb", "errored">>
         /\ deploy.mode = "deployContractWithLibrary" => ~LibrarySubmitted
    /\ PipelineErrored => ReportedToFinalCb

\* the deployment of a library failed and the formatter reported it
C13_Witness ==
  /\ deploy.mode = "deployContractAndLibraries"
  /\ deploy.log = <<<<"runTx", "L1">>, <<"cb", "L1">>, <<"statusCb", "errored">>>>
  /\ deploy.todo = <<"L1", "L2">>

\* every library submitted before the place p of the log had its result callback
\* fired before p
CompletedBefore(p) ==
  \A i \in 1..(p - 1) :
    deploy.log[i][1] = "runTx" =>
      \E j \in (i + 1)..(p - 1) : deploy.log[j] = <<"cb", deploy.log[i][2]>>

\* C14: in deployContractAndLibraries every library the linking requires is
\* submitted through runTx and its result callback has fired before the creation of
\* the primary contract is submitted, hence before it is dispatched; the library
\* submissions are runTx invocations made while the request is in progress.
C14_LibrariesCompleteBeforePrimary ==
  deploy.mode = "deployContractAndLibraries" =>
    /\ \A p \in DOMAIN deploy.log :
         deploy.log[p] = <<"createContract", "primary">> =>
           /\ deploy.todo = <<>>
           /\ CompletedBefore(p)
    /\ (kind = "library" /\ deploy.stage = "library") => ~PrimarySubmitted
    /\ kind = "createContract" => PrimarySubmitted

\* two libraries deployed one after the other, then the creation dispatched
C14_Witness ==
  /\ deploy.mode = "deployContractAndLibraries"
  /\ Logged(<<"cb", "L1">>) /\ Logged(<<"cb", "L2">>)
  /\ kind = "createContract"
  /\ pc = "inflight"

\* C20: in both callers that give the formatter a function that deploys libraries,
\* the formatter's continuation runTxCallback is invoked only as the result callback
\* of the library's submission, after its dispatch has completed, and never as a hook
\* of the confirmation handshake.
C20_ContinuationOnlyAsResultCallback ==
  \A i \in DOMAIN deploy.log :
    deploy.log[i][1] \in {"cb", "continueCb"} => deploy.log[i][1] = "cb"

\* the invocation in progress, of createContract with or without data or of runTx
\* with data, is over: its callback returned, or an exception left it
Over ==
  /\ kind \in CallerKinds
  /\ kind = "runTx" => args.hasData
  /\ pc \in {"done", "threw"}

\* C21: with an engine that invokes its result callback exactly once, every runTx
\* invocation invokes its callback cb exactly once and every createContract
\* invocation invokes finalCb exactly once, for absent data in createContract and
\* for a raw result without an inner result record as well: an invocation that is
\* over has made exactly one such call.
C21_CallbackExactlyOnce ==
  Over =>
    /\ cbOut.called = 1
    /\ kind = "createContract" => finalOut.called = 1

====
